---- MODULE Spec2Model ----
(***************************************************************************)
(* Model of scripts/run_compile_loop.py:                                   *)
(*                                                                         *)
(*   source = sys.argv[1] if len(sys.argv) > 1 else '42'                   *)
(*   run(['node', 'dist/main.js'], input=source.encode())                  *)
(*                                                                         *)
(* The invoker is a straight-line process; subprocess.run is unfolded into *)
(* the steps it performs for input=<bytes>, check=False, no timeout and no *)
(* output capture: Popen with stdin=PIPE, write the input, close the       *)
(* stream, wait for the child, build the CompletedProcess.  The child      *)
(* (node dist/main.js) is an arbitrary external process.                   *)
(*                                                                         *)
(* Strings are sequences of Unicode code points, byte strings sequences of *)
(* 0..255.  Optional values: None is <<>>, a present value x is <<x>>.     *)
(***************************************************************************)
EXTENDS Integers, Sequences, FiniteSets, TLC

VARIABLES
    argv,        \* sys.argv: <<script name, arg1, ...>> (Python index i is argv[i+1])
    pipeErrno,   \* what creating Popen's pipes ends with: "ok" or an errno
    forkErrno,   \* what the fork of the child ends with: "ok" or an errno
    execErrno,   \* what the exec of "node" along PATH ends with: "ok" or an errno
    sigchldIgnored, \* the invoker inherited SIGCHLD as ignored
    pc,          \* position of the invoker
    source,      \* Optional string: the module variable `source`
    payload,     \* Optional bytes: value of source.encode(), the input= argument
    spawns,      \* commands of the child processes started so far
    child,       \* "none" | "running" | "exited" | "reaped"
    childExit,   \* status the child exited with (negative: killed by that signal)
    writerOpen,  \* the invoker's end of the stdin pipe is open
    readerOpen,  \* the child's end of the stdin pipe is open
    otherHolds,  \* another process (one the child handed its stdin to) holds the read end
    stolen,      \* such a process has read bytes out of the pipe
    nsent,       \* number of payload bytes the invoker has written to the pipe
    pipe,        \* bytes in the pipe, written and not yet read
    received,    \* bytes the child has read from its standard input
    sawEOF,      \* the child has read end-of-file on its standard input
    brokenPipe,  \* the write hit a closed pipe (BrokenPipeError was raised inside run)
    childWrote,  \* the child has written to its inherited stdout/stderr
    returncode,  \* Optional int: Popen.returncode, what wait() recorded
    completed,   \* Optional CompletedProcess returned by run
    exc,         \* class of the uncaught exception, or "none"
    errno,       \* its errno when it is an OSError, or "none"
    invExit      \* Optional int: exit status of the invoker

vars == <<argv, pipeErrno, forkErrno, execErrno, sigchldIgnored, pc, source, payload, spawns, child, childExit,
          writerOpen, readerOpen, otherHolds, stolen, nsent, pipe, received, sawEOF, brokenPipe,
          childWrote, returncode, completed, exc, errno, invExit>>

(* ------------------------------ bounds --------------------------------- *)
MaxArgLen   == 2   \* longest first argument, in code points
MaxArgs     == 2   \* most command-line arguments
PipeCap     == 2   \* capacity of the pipe, in bytes
MaxPath     == 2   \* most directories on PATH

(* --------------------------- values and inputs -------------------------- *)
None    == <<>>
Some(x) == <<x>>

\* '4', e-acute (2 bytes), euro sign (3 bytes), U+1F600 (4 bytes),
\* and U+DCFF, the lone surrogate a non-UTF-8 byte 0xFF of the command line
\* becomes in sys.argv.
Chars == {52, 233, 8364, 128512, 56575}

\* the characters the longer arguments are made of
CoreChars == {52, 8364, 56575}

Strs(n) == {<<c>> : c \in Chars} \cup UNION {[1..k -> CoreChars] : k \in 0..n}

ScriptName == "scripts/run_compile_loop.py"

ExtraArgs == {<<120>>}

\* the argument lists: no argument, one argument, and further arguments
\* after a first one of at most one character
RECURSIVE ArgLists(_)
ArgLists(n) ==
    IF n = 0 THEN {<<>>}
    ELSE IF n = 1 THEN {<<>>} \cup {<<a>> : a \in Strs(MaxArgLen)}
    ELSE ArgLists(n - 1)
         \cup {Append(l, e) : l \in {x \in ArgLists(n - 1) :
                                        Len(x) = n - 1 /\ Len(x[1]) <= 1},
                              e \in ExtraArgs}

ArgvSet == {<<ScriptName>> \o l : l \in ArgLists(MaxArgs)}

\* Popen.returncode of a child: success, failure, killed by signal 9
ExitCodes == {0, 1, 0 - 9}

(* ------------------------------ line 7 --------------------------------- *)
Default_newline == <<52, 50, 10>>

Default == <<52, 50>>

SysArgv(i) == argv[i + 1]

SelectSource_truthy ==
    IF Len(argv) > 1 /\ SysArgv(1) # <<>> THEN SysArgv(1) ELSE Default

SelectSource == IF Len(argv) > 1 THEN SysArgv(1) ELSE Default

(* --------------------------- str.encode() ------------------------------ *)
IsSurrogate(c) == c >= 55296 /\ c <= 57343

Encodable_surrogatepass(s) == TRUE

Encodable(s) == \A i \in 1..Len(s) : ~IsSurrogate(s[i])

Utf8Char(c) ==
    IF c < 128 THEN <<c>>
    ELSE IF c < 2048 THEN <<192 + (c \div 64), 128 + (c % 64)>>
    ELSE IF c < 65536 THEN
        <<224 + (c \div 4096), 128 + ((c \div 64) % 64), 128 + (c % 64)>>
    ELSE <<240 + (c \div 262144), 128 + ((c \div 4096) % 64),
           128 + ((c \div 64) % 64), 128 + (c % 64)>>

RECURSIVE encode(_)
encode(s) == IF s = <<>> THEN <<>> ELSE Utf8Char(Head(s)) \o encode(Tail(s))

(* ------------------------- the call of run() --------------------------- *)
Command_shell == <<"sh", "-c", "node dist/main.js">>

Command == <<"node", "dist/main.js">>

check_true == TRUE

check == FALSE

Terminal == {"done", "failed"}

(* ---- the environment of Popen: descriptors, processes, PATH ------------ *)
\* pipe(2) for the stdin pipe and for the pipe the exec error comes back on
PipeErrnos == {"ok", "EMFILE", "ENFILE"}

\* fork(2)
ForkErrnos == {"ok", "EAGAIN", "ENOMEM"}

\* execve(2) of <directory>/node for one directory of PATH: "ok" when the
\* program starts, else one of the errors of execve: ENOENT no such file,
\* ENOTDIR the entry is not a directory, EACCES no execute permission or a
\* directory, ENOEXEC not a program, ELOOP a symlink loop, ELIBBAD a bad
\* ELF interpreter, and the rest of its list
ExecErrnos == {"ok", "E2BIG", "EACCES", "EAGAIN", "EFAULT", "EINVAL", "EIO",
               "EISDIR", "ELIBBAD", "ELOOP", "EMFILE", "ENAMETOOLONG", "ENFILE",
               "ENOENT", "ENOEXEC", "ENOMEM", "ENOTDIR", "EPERM", "ETXTBSY"}

\* PATH as the outcomes of the exec in each of its directories, in order
Paths == UNION {[1..k -> ExecErrnos] : k \in 1..MaxPath}

\* The exec loop over PATH: the first directory whose node starts wins;
\* otherwise the first errno other than ENOENT and ENOTDIR is reported,
\* and failing that the errno of the last directory tried.
RECURSIVE Resolve(_, _)
Resolve(path, saved) ==
    IF Head(path) = "ok" THEN "ok"
    ELSE LET keep == IF Head(path) \notin {"ENOENT", "ENOTDIR"} /\ saved = "none"
                     THEN Head(path) ELSE saved
         IN  IF Len(path) = 1
             THEN (IF keep # "none" THEN keep ELSE Head(path))
             ELSE Resolve(Tail(path), keep)

\* the subclass of OSError Python raises for an errno
OSErrorClass(e) ==
    IF e = "ENOENT" THEN "FileNotFoundError"
    ELSE IF e \in {"EACCES", "EPERM"} THEN "PermissionError"
    ELSE IF e = "ENOTDIR" THEN "NotADirectoryError"
    ELSE IF e = "EISDIR" THEN "IsADirectoryError"
    ELSE IF e = "EAGAIN" THEN "BlockingIOError"
    ELSE "OSError"

\* Popen creates the pipes, then forks, then the child execs: the first of
\* the three that fails decides the error.
PopenError ==
    IF pipeErrno # "ok" THEN pipeErrno
    ELSE IF forkErrno # "ok" THEN forkErrno
    ELSE execErrno

\* the read end of the stdin pipe has no holder left: a write hits EPIPE
NoReader == ~readerOpen /\ ~otherHolds

Init ==
    /\ argv \in ArgvSet
    /\ pipeErrno \in PipeErrnos
    /\ forkErrno \in ForkErrnos
    /\ execErrno \in {Resolve(p, "none") : p \in Paths}
    /\ sigchldIgnored \in BOOLEAN
    /\ pc = "select"
    /\ source = None
    /\ payload = None
    /\ spawns = <<>>
    /\ child = "none"
    /\ childExit = 0
    /\ writerOpen = FALSE
    /\ readerOpen = FALSE
    /\ otherHolds = FALSE
    /\ stolen = FALSE
    /\ nsent = 0
    /\ pipe = <<>>
    /\ received = <<>>
    /\ sawEOF = FALSE
    /\ brokenPipe = FALSE
    /\ childWrote = FALSE
    /\ returncode = None
    /\ completed = None
    /\ exc = "none"
    /\ errno = "none"
    /\ invExit = None

\* An exception nothing catches: traceback, interpreter exits with status 1.
Raise(e, n) ==
    /\ exc' = e
    /\ errno' = n
    /\ invExit' = Some(1)
    /\ pc' = "failed"

\* source = sys.argv[1] if len(sys.argv) > 1 else '42'
Select ==
    /\ pc = "select"
    /\ source' = Some(SelectSource)
    /\ pc' = "encode"
    /\ UNCHANGED <<otherHolds, stolen>>
    /\ UNCHANGED <<argv, pipeErrno, forkErrno, execErrno, sigchldIgnored, payload, spawns, child, childExit,
                   writerOpen, readerOpen, nsent, pipe, received, sawEOF,
                   brokenPipe, childWrote, returncode, completed, exc, errno, invExit>>

\* source.encode(), evaluated before run is called
EncodeOk ==
    /\ pc = "encode"
    /\ Encodable(source[1])
    /\ payload' = Some(encode(source[1]))
    /\ pc' = "popen"
    /\ UNCHANGED <<otherHolds, stolen>>
    /\ UNCHANGED <<argv, pipeErrno, forkErrno, execErrno, sigchldIgnored, source, spawns, child, childExit,
                   writerOpen, readerOpen, nsent, pipe, received, sawEOF,
                   brokenPipe, childWrote, returncode, completed, exc, errno, invExit>>

EncodeFail ==
    /\ pc = "encode"
    /\ ~Encodable(source[1])
    /\ Raise("UnicodeEncodeError", "none")
    /\ UNCHANGED <<otherHolds, stolen>>
    /\ UNCHANGED <<argv, pipeErrno, forkErrno, execErrno, sigchldIgnored, source, payload, spawns, child, childExit,
                   writerOpen, readerOpen, nsent, pipe, received, sawEOF,
                   brokenPipe, childWrote, returncode, completed>>

\* run: Popen(['node', 'dist/main.js'], stdin=PIPE)
PopenOk ==
    /\ pc = "popen"
    /\ PopenError = "ok"
    /\ spawns' = Append(spawns, Command)
    /\ child' = "running"
    /\ writerOpen' = TRUE
    /\ readerOpen' = TRUE
    /\ pc' = "write"
    /\ UNCHANGED <<otherHolds, stolen>>
    /\ UNCHANGED <<argv, pipeErrno, forkErrno, execErrno, sigchldIgnored, source, payload, childExit, nsent, pipe,
                   received, sawEOF, brokenPipe, childWrote, returncode,
                   completed, exc, errno, invExit>>

PopenFails_swallow ==
    /\ pc = "popen"
    /\ PopenError # "ok"
    /\ invExit' = Some(0)
    /\ pc' = "done"
    /\ UNCHANGED <<otherHolds, stolen>>
    /\ UNCHANGED <<argv, pipeErrno, forkErrno, execErrno, sigchldIgnored, source, payload, spawns, child, childExit,
                   writerOpen, readerOpen, nsent, pipe, received, sawEOF,
                   brokenPipe, childWrote, returncode, completed, exc, errno>>

\* Popen raises the OSError of the step that failed (pipes, fork, exec of
\* node); no child exists afterwards
PopenFails ==
    /\ pc = "popen"
    /\ PopenError # "ok"
    /\ Raise(OSErrorClass(PopenError), PopenError)
    /\ UNCHANGED <<otherHolds, stolen>>
    /\ UNCHANGED <<argv, pipeErrno, forkErrno, execErrno, sigchldIgnored, source, payload, spawns, child, childExit,
                   writerOpen, readerOpen, nsent, pipe, received, sawEOF,
                   brokenPipe, childWrote, returncode, completed>>

\* run: communicate(input): stdin.write(input); blocks while the pipe is full
WriteByte ==
    /\ pc = "write"
    /\ nsent < Len(payload[1])
    /\ ~NoReader
    /\ Len(pipe) < PipeCap
    /\ pipe' = Append(pipe, payload[1][nsent + 1])
    /\ nsent' = nsent + 1
    /\ UNCHANGED <<otherHolds, stolen>>
    /\ UNCHANGED <<argv, pipeErrno, forkErrno, execErrno, sigchldIgnored, pc, source, payload, spawns, child,
                   childExit, writerOpen, readerOpen, received, sawEOF,
                   brokenPipe, childWrote, returncode, completed, exc, errno, invExit>>

\* the write finds the read end closed: BrokenPipeError, which communicate ignores
WriteBrokenPipe_raise ==
    /\ pc = "write"
    /\ nsent < Len(payload[1])
    /\ NoReader
    /\ brokenPipe' = TRUE
    /\ Raise("BrokenPipeError", "EPIPE")
    /\ child' = "reaped"
    /\ writerOpen' = FALSE
    /\ UNCHANGED <<otherHolds, stolen>>
    /\ UNCHANGED <<argv, pipeErrno, forkErrno, execErrno, sigchldIgnored, source, payload, spawns, childExit,
                   readerOpen, nsent, pipe, received, sawEOF, childWrote,
                   returncode, completed>>

WriteBrokenPipe ==
    /\ pc = "write"
    /\ nsent < Len(payload[1])
    /\ NoReader
    /\ brokenPipe' = TRUE
    /\ pc' = "close"
    /\ UNCHANGED <<otherHolds, stolen>>
    /\ UNCHANGED <<argv, pipeErrno, forkErrno, execErrno, sigchldIgnored, source, payload, spawns, child, childExit,
                   writerOpen, readerOpen, nsent, pipe, received, sawEOF,
                   childWrote, returncode, completed, exc, errno, invExit>>

\* the whole input is written (at once when the input is empty)
WriteDone ==
    /\ pc = "write"
    /\ nsent = Len(payload[1])
    /\ pc' = "close"
    /\ UNCHANGED <<otherHolds, stolen>>
    /\ UNCHANGED <<argv, pipeErrno, forkErrno, execErrno, sigchldIgnored, source, payload, spawns, child, childExit,
                   writerOpen, readerOpen, nsent, pipe, received, sawEOF,
                   brokenPipe, childWrote, returncode, completed, exc, errno, invExit>>

\* run: communicate(input): stdin.close()
CloseStdin_leaveOpen ==
    /\ pc = "close"
    /\ pc' = "wait"
    /\ UNCHANGED <<otherHolds, stolen>>
    /\ UNCHANGED <<argv, pipeErrno, forkErrno, execErrno, sigchldIgnored, source, payload, spawns, child, childExit,
                   writerOpen, readerOpen, nsent, pipe, received, sawEOF,
                   brokenPipe, childWrote, returncode, completed, exc, errno, invExit>>

CloseStdin ==
    /\ pc = "close"
    /\ writerOpen' = FALSE
    /\ pc' = "wait"
    /\ UNCHANGED <<otherHolds, stolen>>
    /\ UNCHANGED <<argv, pipeErrno, forkErrno, execErrno, sigchldIgnored, source, payload, spawns, child, childExit,
                   readerOpen, nsent, pipe, received, sawEOF, brokenPipe,
                   childWrote, returncode, completed, exc, errno, invExit>>

\* what wait() records: the child's status, or 0 when SIGCHLD is ignored,
\* as waitpid then fails with ECHILD once the child is gone
WaitStatus == IF sigchldIgnored THEN 0 ELSE childExit

WaitReady_poll == TRUE

WaitReady == child = "exited"

\* run: communicate(input): self.wait() blocks until the child has exited
Wait ==
    /\ pc = "wait"
    /\ WaitReady
    /\ child' = (IF child = "exited" THEN "reaped" ELSE child)
    /\ returncode' = (IF child = "exited" THEN Some(WaitStatus) ELSE None)
    /\ pc' = "check"
    /\ UNCHANGED <<otherHolds, stolen>>
    /\ UNCHANGED <<argv, pipeErrno, forkErrno, execErrno, sigchldIgnored, source, payload, spawns, childExit,
                   writerOpen, readerOpen, nsent, pipe, received, sawEOF,
                   brokenPipe, childWrote, completed, exc, errno, invExit>>

\* run: if check and retcode: raise CalledProcessError; return CompletedProcess
CheckReturn ==
    /\ pc = "check"
    /\ IF check /\ returncode[1] # 0
       THEN /\ Raise("CalledProcessError", "none")
            /\ UNCHANGED completed
       ELSE /\ completed' = Some([args |-> Command, returncode |-> returncode,
                                  stdout |-> None, stderr |-> None])
            /\ pc' = "exit"
            /\ UNCHANGED <<exc, errno, invExit>>
    /\ UNCHANGED <<otherHolds, stolen>>
    /\ UNCHANGED <<argv, pipeErrno, forkErrno, execErrno, sigchldIgnored, source, payload, spawns, child, childExit,
                   writerOpen, readerOpen, nsent, pipe, received, sawEOF,
                   brokenPipe, childWrote, returncode>>

\* end of the script: the result of run is dropped, the interpreter exits with 0
Finish_propagate ==
    /\ pc = "exit"
    /\ invExit' = Some(IF returncode[1] < 0 THEN 128 - returncode[1]
                        ELSE returncode[1])
    /\ pc' = "done"
    /\ UNCHANGED <<otherHolds, stolen>>
    /\ UNCHANGED <<argv, pipeErrno, forkErrno, execErrno, sigchldIgnored, source, payload, spawns, child, childExit,
                   writerOpen, readerOpen, nsent, pipe, received, sawEOF,
                   brokenPipe, childWrote, returncode, completed, exc, errno>>

Finish ==
    /\ pc = "exit"
    /\ invExit' = Some(0)
    /\ pc' = "done"
    /\ UNCHANGED <<otherHolds, stolen>>
    /\ UNCHANGED <<argv, pipeErrno, forkErrno, execErrno, sigchldIgnored, source, payload, spawns, child, childExit,
                   writerOpen, readerOpen, nsent, pipe, received, sawEOF,
                   brokenPipe, childWrote, returncode, completed, exc, errno>>

(* ------------------- the child process, node dist/main.js --------------- *)
ChildRead ==
    /\ child = "running"
    /\ readerOpen
    /\ pipe # <<>>
    /\ received' = Append(received, Head(pipe))
    /\ pipe' = Tail(pipe)
    /\ UNCHANGED <<otherHolds, stolen>>
    /\ UNCHANGED <<argv, pipeErrno, forkErrno, execErrno, sigchldIgnored, pc, source, payload, spawns, child,
                   childExit, writerOpen, readerOpen, nsent, sawEOF, brokenPipe,
                   childWrote, returncode, completed, exc, errno, invExit>>

ChildSeeEOF ==
    /\ child = "running"
    /\ readerOpen
    /\ pipe = <<>>
    /\ ~writerOpen
    /\ ~sawEOF
    /\ sawEOF' = TRUE
    /\ UNCHANGED <<otherHolds, stolen>>
    /\ UNCHANGED <<argv, pipeErrno, forkErrno, execErrno, sigchldIgnored, pc, source, payload, spawns, child,
                   childExit, writerOpen, readerOpen, nsent, pipe, received,
                   brokenPipe, childWrote, returncode, completed, exc, errno, invExit>>

\* the child closes its own descriptor; the pipe stays readable while
\* another process holds the read end
ChildCloseStdin ==
    /\ child = "running"
    /\ readerOpen
    /\ readerOpen' = FALSE
    /\ pipe' = (IF otherHolds THEN pipe ELSE <<>>)
    /\ UNCHANGED <<otherHolds, stolen>>
    /\ UNCHANGED <<argv, pipeErrno, forkErrno, execErrno, sigchldIgnored, pc, source, payload, spawns, child,
                   childExit, writerOpen, nsent, received, sawEOF, brokenPipe,
                   childWrote, returncode, completed, exc, errno, invExit>>

ChildWrite ==
    /\ child = "running"
    /\ ~childWrote
    /\ childWrote' = TRUE
    /\ UNCHANGED <<otherHolds, stolen>>
    /\ UNCHANGED <<argv, pipeErrno, forkErrno, execErrno, sigchldIgnored, pc, source, payload, spawns, child,
                   childExit, writerOpen, readerOpen, nsent, pipe, received,
                   sawEOF, brokenPipe, returncode, completed, exc, errno, invExit>>

\* the exit closes the child's own descriptors only
ChildExits ==
    /\ child = "running"
    /\ \E code \in ExitCodes : childExit' = code
    /\ child' = "exited"
    /\ readerOpen' = FALSE
    /\ pipe' = (IF otherHolds THEN pipe ELSE <<>>)
    /\ UNCHANGED <<otherHolds, stolen>>
    /\ UNCHANGED <<argv, pipeErrno, forkErrno, execErrno, sigchldIgnored, pc, source, payload, spawns, writerOpen,
                   nsent, received, sawEOF, brokenPipe, childWrote, returncode,
                   completed, exc, errno, invExit>>

(* ------- processes the child passed its standard input on to ------------ *)
ChildHandsOver ==
    /\ child = "running"
    /\ readerOpen
    /\ ~otherHolds
    /\ otherHolds' = TRUE
    /\ UNCHANGED <<argv, pipeErrno, forkErrno, execErrno, sigchldIgnored, pc, source, payload, spawns, child,
                   childExit, writerOpen, readerOpen, stolen, nsent, pipe,
                   received, sawEOF, brokenPipe, childWrote, returncode,
                   completed, exc, errno, invExit>>

OtherRead ==
    /\ otherHolds
    /\ pipe # <<>>
    /\ pipe' = Tail(pipe)
    /\ stolen' = TRUE
    /\ UNCHANGED <<argv, pipeErrno, forkErrno, execErrno, sigchldIgnored, pc, source, payload, spawns, child,
                   childExit, writerOpen, readerOpen, otherHolds, nsent,
                   received, sawEOF, brokenPipe, childWrote, returncode,
                   completed, exc, errno, invExit>>

OtherCloses ==
    /\ otherHolds
    /\ otherHolds' = FALSE
    /\ pipe' = (IF readerOpen THEN pipe ELSE <<>>)
    /\ UNCHANGED <<argv, pipeErrno, forkErrno, execErrno, sigchldIgnored, pc, source, payload, spawns, child,
                   childExit, writerOpen, readerOpen, stolen, nsent, received,
                   sawEOF, brokenPipe, childWrote, returncode, completed, exc, errno,
                   invExit>>

Invoker ==
    \/ Select
    \/ EncodeOk
    \/ EncodeFail
    \/ PopenOk
    \/ PopenFails
    \/ WriteByte
    \/ WriteBrokenPipe
    \/ WriteDone
    \/ CloseStdin
    \/ Wait
    \/ CheckReturn
    \/ Finish

Child ==
    \/ ChildRead
    \/ ChildSeeEOF
    \/ ChildCloseStdin
    \/ ChildWrite
    \/ ChildExits

Others ==
    \/ ChildHandsOver
    \/ OtherRead
    \/ OtherCloses

Next == Invoker \/ Child \/ Others

Spec == Init /\ [][Next]_vars

\* The invoker is a running process: it takes its next step whenever it has
\* one.  Nothing is assumed of the child or of the processes it starts.
FairSpec == Spec /\ WF_vars(Invoker)

TypeOK ==
    /\ pc \in {"select", "encode", "popen", "write", "close", "wait", "check",
               "exit", "done", "failed"}
    /\ child \in {"none", "running", "exited", "reaped"}
    /\ Len(source) <= 1 /\ Len(payload) <= 1 /\ Len(returncode) <= 1
    /\ payload # None => \A i \in 1..Len(payload[1]) : payload[1][i] \in 0..255
    /\ nsent \in 0..(4 * (MaxArgLen + 2))
    /\ Len(pipe) <= PipeCap
(* ------------------------------ properties ------------------------------ *)
IsPrefix(a, b) == Len(a) <= Len(b) /\ SubSeq(b, 1, Len(a)) = a

AfterWrite == {"close", "wait", "check", "exit", "done"}

AfterClose == {"wait", "check", "exit", "done"}

Started == {"write", "close", "wait", "check", "exit", "done"}

\* What is written to the child's standard input is bytes, in order, and all
\* of them once the stream is closed without a broken pipe; the child reads
\* exactly them unless a process it shared the pipe with read some.
Delivers(bytes) ==
    /\ payload # None => payload[1] = bytes
    /\ nsent <= Len(bytes)
    /\ Len(received) + Len(pipe) <= nsent
    /\ ~stolen => IsPrefix(received \o pipe, bytes)
    /\ (~stolen /\ ~NoReader) => received \o pipe = SubSeq(bytes, 1, nsent)
    /\ (pc \in AfterWrite /\ ~brokenPipe) => nsent = Len(bytes)
    /\ (sawEOF /\ ~stolen) => received = bytes

\* C1: started with no command-line argument, the script selects '42' and
\* the bytes written to the child's standard input are '4','2' and nothing
\* else (all of them unless the child closed the pipe first).
DefaultSelection ==
    Len(argv) = 1 =>
        /\ source # None => source[1] = <<52, 50>>
        /\ Delivers(<<52, 50>>)

DefaultSelectionWitness ==
    /\ Len(argv) = 1
    /\ pc = "done"
    /\ sawEOF
    /\ received = <<52, 50>>

\* C2: started with at least one argument, the payload is the UTF-8 encoding
\* of the first argument, byte for byte: nothing added, nothing removed, the
\* empty argument gives the empty payload, later arguments change nothing.
ArgumentPassthrough ==
    Len(argv) > 1 =>
        /\ source # None => source[1] = argv[2]
        /\ payload # None =>
            /\ Delivers(encode(argv[2]))
            /\ (\A i \in 1..Len(argv[2]) : argv[2][i] < 128) => payload[1] = argv[2]
            /\ argv[2] = <<>> => payload[1] = <<>>
            /\ argv[2] = <<233>> => payload[1] = <<195, 169>>
            /\ argv[2] = <<8364>> => payload[1] = <<226, 130, 172>>
            /\ argv[2] = <<52, 8364>> => payload[1] = <<52, 226, 130, 172>>
            /\ argv[2] = <<128512>> => payload[1] = <<240, 159, 152, 128>>
            /\ Len(payload[1]) >= Len(argv[2])

ArgumentPassthroughWitness ==
    /\ Len(argv) = 3
    /\ argv[2] = <<8364>>
    /\ pc = "done"
    /\ sawEOF
    /\ received = <<226, 130, 172>>

\* C3 as stated: every run starts the child exactly once.
SingleInvocationOriginal ==
    pc \in Terminal => Len(spawns) = 1 /\ spawns[1] = <<"node", "dist/main.js">>

\* C3 amended: the child is never started more than once and only as
\* node dist/main.js; it has been started exactly once from the moment Popen
\* succeeds, hence in every run that completes, and zero times in a run that
\* fails in the encoding or in which Popen raises, whatever the cause (no
\* descriptor for the pipes, fork refused, node not found, not executable,
\* not a program, ...).
SingleInvocation ==
    /\ Len(spawns) <= 1
    /\ \A i \in 1..Len(spawns) : spawns[i] = <<"node", "dist/main.js">>
    /\ Len(spawns) = 1 <=> pc \in Started
    /\ pc = "failed" => spawns = <<>>
    /\ (pipeErrno # "ok" \/ forkErrno # "ok" \/ execErrno # "ok") =>
        spawns = <<>>
    /\ (pc \in Terminal /\ payload # None
           /\ pipeErrno = "ok" /\ forkErrno = "ok" /\ execErrno = "ok") =>
        Len(spawns) = 1

SingleInvocationWitness ==
    /\ pc = "done"
    /\ Len(spawns) = 1
    /\ Len(argv) > 1
    /\ payload[1] # <<>>

\* C4 as stated: the invoker never finishes while the child is running, and
\* once the child has exited the invoker finishes.
BlockingCompletionOriginal ==
    /\ [](pc \in Terminal => child \in {"none", "reaped"})
    /\ (child = "exited") ~> (pc \in Terminal)

\* C4 amended: the invoker never finishes while the child is running; once
\* the child has exited the invoker finishes, provided it is not still
\* writing the payload into a pipe that another process holds open.
BlockingCompletion ==
    /\ [](pc \in Terminal => child \in {"none", "reaped"})
    /\ [](pc \in {"check", "exit", "done"} => child = "reaped")
    /\ (child = "exited" /\ (~otherHolds \/ pc # "write"
                              \/ nsent = Len(payload[1])))
          ~> (pc \in Terminal)

BlockingCompletionWitness ==
    /\ pc = "done"
    /\ child = "reaped"
    /\ otherHolds
    /\ nsent = Len(payload[1])
    /\ Len(payload[1]) > PipeCap

\* C5: when node cannot be found the run ends in an uncaught error and exit
\* status 1, never in a successful completion, and no child is started; the
\* error is FileNotFoundError unless the encoding, the pipes or the fork
\* failed first.
MissingExecutableFails ==
    execErrno = "ENOENT" =>
        /\ spawns = <<>>
        /\ child = "none"
        /\ pc # "done"
        /\ invExit # Some(0)
        /\ pc \in Terminal =>
            /\ pc = "failed"
            /\ invExit = Some(1)
            /\ exc # "none"
            /\ payload = None => exc = "UnicodeEncodeError"
            /\ (payload # None /\ pipeErrno = "ok" /\ forkErrno = "ok") =>
                (exc = "FileNotFoundError" /\ errno = "ENOENT")
            /\ (payload # None /\ pipeErrno # "ok") =>
                (exc = "OSError" /\ errno = pipeErrno)
            /\ (payload # None /\ pipeErrno = "ok" /\ forkErrno = "EAGAIN") =>
                (exc = "BlockingIOError" /\ errno = "EAGAIN")

MissingExecutableFailsWitness ==
    /\ execErrno = "ENOENT"
    /\ pipeErrno = "ok"
    /\ forkErrno = "ok"
    /\ pc = "failed"
    /\ exc = "FileNotFoundError"
    /\ invExit = Some(1)

\* C6 as stated: a child that exits with a non-zero code makes the invoker fail.
NonZeroExitPropagatesOriginal ==
    (pc \in Terminal /\ child = "reaped" /\ childExit > 0) =>
        (pc = "failed" \/ invExit # Some(0))

\* C6 amended: a non-zero exit code of the child is not propagated: no
\* exception is raised and the invoker completes with exit status 0.
NonZeroExitNotPropagated ==
    (child \in {"exited", "reaped"} /\ childExit > 0) =>
        /\ exc = "none"
        /\ errno = "none"
        /\ pc # "failed"
        /\ invExit \in {None, Some(0)}
        /\ pc \in Terminal => (pc = "done" /\ invExit = Some(0))

NonZeroExitNotPropagatedWitness ==
    /\ pc = "done"
    /\ child = "reaped"
    /\ childExit = 1
    /\ ~sigchldIgnored
    /\ invExit = Some(0)

\* C7: once the child has been started, the invoker's outcome is exit status 0
\* with no exception, whatever the child's exit code and output; the result of
\* run holds no captured output.
ExitCodeAndOutputIgnored ==
    /\ (pc \in Terminal /\ spawns # <<>>) =>
        (pc = "done" /\ invExit = Some(0) /\ exc = "none")
    /\ completed # None =>
        (completed[1].stdout = None /\ completed[1].stderr = None)
    /\ spawns # <<>> => exc = "none"

ExitCodeAndOutputIgnoredWitness ==
    /\ pc = "done"
    /\ child = "reaped"
    /\ childExit # 0
    /\ childWrote
    /\ invExit = Some(0)

\* C8: child started, then the whole payload written, then the stream closed,
\* then the wait, then completion: while the child accepts its input the
\* invoker never waits with payload unwritten or the stream open, and the
\* child reads end-of-file only after the stream is closed, having read the
\* whole payload unless a process it shared the pipe with read some of it.
OrderingOfRun ==
    /\ (writerOpen \/ nsent > 0 \/ pc \in Started) => Len(spawns) = 1
    /\ pc = "write" => writerOpen
    /\ (pc = "close" /\ ~brokenPipe) => (writerOpen /\ nsent = Len(payload[1]))
    /\ pc \in AfterClose =>
        (~writerOpen /\ (brokenPipe \/ nsent = Len(payload[1])))
    /\ pc \in {"check", "exit", "done"} => child = "reaped"
    /\ sawEOF => (~writerOpen /\ (~stolen => received = payload[1]))

OrderingOfRunWitness ==
    /\ pc = "done"
    /\ ~brokenPipe
    /\ Len(payload[1]) > PipeCap
    /\ received = payload[1]
    /\ sawEOF

\* C9 as stated: a broken pipe on the write makes the invoker fail.
BrokenPipeSurfacesOriginal ==
    (pc \in Terminal /\ brokenPipe) => (pc = "failed" /\ invExit # Some(0))

\* C9 amended: a broken pipe on the write is ignored inside run: the invoker
\* stops writing, closes the stream, waits for the child and completes with
\* exit status 0; so does a run whose child was killed by a signal.  Nothing
\* is retried.
BrokenPipeIgnored ==
    (brokenPipe \/ (child \in {"exited", "reaped"} /\ childExit < 0)) =>
        /\ exc = "none"
        /\ Len(spawns) = 1
        /\ brokenPipe => (pc \in AfterWrite /\ nsent < Len(payload[1]))
        /\ pc \in Terminal => (pc = "done" /\ invExit = Some(0))

BrokenPipeIgnoredWitness ==
    /\ brokenPipe
    /\ pc = "done"
    /\ invExit = Some(0)
    /\ nsent < Len(payload[1])

\* C10: the payload is encoded before the child is started: a first argument
\* that cannot be encoded (it holds a lone surrogate) ends the run in an
\* uncaught UnicodeEncodeError with no child started and nothing written, and
\* a child is started only after the payload is encoded.
EncodingPrecedesSpawning ==
    /\ (Len(argv) > 1 /\ \E i \in 1..Len(argv[2]) :
                            argv[2][i] >= 55296 /\ argv[2][i] <= 57343) =>
        /\ spawns = <<>>
        /\ child = "none"
        /\ payload = None
        /\ nsent = 0 /\ pipe = <<>> /\ received = <<>>
        /\ pc \in Terminal =>
            (pc = "failed" /\ exc = "UnicodeEncodeError" /\ invExit = Some(1))
    /\ spawns # <<>> => payload # None
    /\ pc = "popen" => payload # None

EncodingPrecedesSpawningWitness ==
    /\ Len(argv) > 1
    /\ argv[2] = <<52, 56575>>
    /\ pipeErrno = "ok" /\ forkErrno = "ok" /\ execErrno = "ok"
    /\ pc = "failed"
    /\ exc = "UnicodeEncodeError"
    /\ spawns = <<>>
====
